---------------------------- MODULE Spec2Model ----------------------------
(***************************************************************************)
(* EDHOC handshake and OSCORE context derivation of lib/edhoc/protocol.py  *)
(* (classes EdhocSession, Server, Client), with the key conversions of     *)
(* lib/edhoc/util.py.  Cryptography is symbolic: a digest, a derived key,  *)
(* a signature and a ciphertext are terms that record what they were made  *)
(* from, so two of them are equal exactly when their inputs are.           *)
(* The module also holds the CWT functions of ace/cose/cwt.py and the      *)
(* /token and /introspect handlers of the authorization server             *)
(* (as/__init__.py) with its key and token registries.                     *)
(***************************************************************************)
EXTENDS Integers, Sequences, FiniteSets, TLC

\* ------------------------------------------------------------------ bounds
\* calls of Client.initiate_edhoc per client object
MaxRuns == 2
\* messages the network attacker alters, forges or replays
MaxTamper == 1
\* calls of EdhocSession.encrypt per endpoint
MaxEncrypt == 2
\* POST /token requests the authorization server handles
MaxRequests == 2
\* token lifetimes the clock advances by
MaxTicks == 2

\* ------------------------------------------------------------ value domains
\* Python's None.  Every value a field may hold instead of None is a record,
\* a tuple or a set, so that it can be compared with None.
None == [tag |-> -1]

\* What one handshake call of an honest endpoint may draw from its random
\* source: os.urandom(2) (the session id), os.urandom(8) (the nonce) and
\* ec.generate_private_key (the ephemeral scalar).
Draws ==
    {[session_id |-> <<1>>, nonce |-> <<1>>, d |-> 1],
     [session_id |-> <<2>>, nonce |-> <<2>>, d |-> 2],
     [session_id |-> <<1>>, nonce |-> <<2>>, d |-> 2]}
SessionIds == {r.session_id : r \in Draws}
Nonces == {r.nonce : r \in Draws}
EphScalars == {r.d : r \in Draws}
\* the attacker's own session id, nonce and ephemeral scalar
IntruderSid == <<9>>
IntruderNonce == <<9>>
IntruderScalars == {9}

\* the client objects; client 1 is the one the server was constructed for
AllClients == {1, 2}
\* long-term ECDSA signing keys (ecdsa.SigningKey)
ClientSk(i) == [sk |-> <<"client", i>>]
ServerSk == [sk |-> <<"server", 0>>]
IntruderSk == [sk |-> <<"intruder", 0>>]
\* SigningKey.get_verifying_key
get_verifying_key(sk) == [vk |-> sk.sk]

\* key identifiers a Sign1 unprotected header may carry
Kids == {<<"client-1234">>, <<"unknown-kid">>}
\* payloads handed to EdhocSession.encrypt
Payloads == {<<"hello from server">>, <<"hello from client">>}

EDHOC_MSG_1 == 1
EDHOC_MSG_2 == 2
EDHOC_MSG_3 == 3

\* --------------------------------------------------------- key conversions
_ecdh_names == [secp256r1 |-> <<"P_256">>, secp384r1 |-> <<"P_384">>, secp521r1 |-> <<"P_521">>]
_ecdh_curves == {<<"P_256">>, <<"P_384">>, <<"P_521">>}

\* ec.generate_private_key(ec.SECP256R1, backend) with scalar d
generate_private_key(d) == [curve |-> "secp256r1", d |-> d]
\* session_key.public_key(): the point d*G
public_key(priv) == [curve |-> priv.curve, point |-> priv.d]
\* session_key.exchange(ec.ECDH(), peer): the point d*d'*G, the same for both sides
exchange(priv, peer) == [z |-> {priv.d, peer.point}, curve |-> priv.curve]

ecdh_key_to_cose(key) ==
    [kty |-> "EC2", crv |-> _ecdh_names[key.curve], x |-> key.point, y |-> key.point]

\* ecdh_cose_to_key raises KeyError for a curve it does not know
cose_key_loadable(ckey) == ckey.crv \in _ecdh_curves
ecdh_cose_to_key(ckey) ==
    [curve |-> CHOOSE n \in DOMAIN _ecdh_names : _ecdh_names[n] = ckey.crv,
     point |-> ckey.x]

\* ------------------------------------------------------------ key schedule
message_digest(message) == [sha256 |-> message]

cose_kdf_context(algorithm_id, key_length, other) ==
    <<algorithm_id, <<None, None, None>>, <<None, None, None>>, <<key_length, <<>>, other>>>>

derive_key(input_key, length, context_info) ==
    [hkdf |-> input_key, length |-> length, info |-> context_info]


\* ------------------------------------------------------- COSE (lib.cose)
\* Signature1Message(...).serialize_signed(sk): a Sign1 over
\* Sig_structure = ["Signature1", protected, external_aad, payload]
Signature1Message(sk, kid, external_aad) ==
    [protected |-> <<"ES256">>,
     unprotected |-> [kid |-> kid],
     payload |-> <<>>,
     signature |-> [signer |-> sk.sk,
                    sig_structure |-> <<"Signature1", <<"ES256">>, external_aad, <<>>>>]]

\* Signature1Message.verify(msg, vk, external_aad) returns the payload; it
\* raises SignatureVerificationFailed when this is false
Signature1Verifies(msg, vk, external_aad) ==
    /\ vk = [vk |-> msg.signature.signer]
    /\ msg.signature.sig_structure = <<"Signature1", msg.protected, external_aad, msg.payload>>

\* Encrypt0Message(plaintext).serialize(iv, key, external_aad)
Encrypt0Message(plaintext, key, iv, external_aad) ==
    [enc |-> plaintext, key |-> key, iv |-> iv, aad |-> external_aad]

\* Encrypt0Message.decrypt(ct, key, iv, external_aad) returns ct.enc; it raises
\* when this is false (the AEAD tag does not verify)
Encrypt0Decrypts(ct, key, iv, external_aad) ==
    /\ ct.key = key
    /\ ct.iv = iv
    /\ ct.aad = external_aad

\* bytes that are the encryption of nothing under no key
Garbage == Encrypt0Message(None, None, None, None)

\* ------------------------------------------- EDHOC messages (lib.edhoc.messages)
\* the wire form of each message, a CBOR array led by its tag
Message1(session_id, nonce, ephemeral_key) ==
    [tag |-> EDHOC_MSG_1, session_id |-> session_id, nonce |-> nonce,
     ephemeral_key |-> ecdh_key_to_cose(ephemeral_key)]

Message2(session_id, peer_session_id, peer_nonce, peer_ephemeral_key, ciphertext) ==
    [tag |-> EDHOC_MSG_2, session_id |-> session_id, peer_session_id |-> peer_session_id,
     peer_nonce |-> peer_nonce, peer_ephemeral_key |-> ecdh_key_to_cose(peer_ephemeral_key),
     ciphertext |-> ciphertext]

Message3(peer_session_id, ciphertext) ==
    [tag |-> EDHOC_MSG_3, peer_session_id |-> peer_session_id, ciphertext |-> ciphertext]

\* the number of elements of the CBOR array
Arity(message) == Cardinality(DOMAIN message)

\* data_2: MSG2 without ciphertext_2, as on the wire
data_2(message2) == [f \in (DOMAIN message2) \ {"ciphertext"} |-> message2[f]]

\* Message2.aad_2(message_digest, message1): TH_2 = H(MSG1 || data_2)
aad_2(message2, message1) == message_digest(<<message1, data_2(message2)>>)

\* Message3.aad_3(message_digest, message1, message2): TH_3 = H(TH_2 || ciphertext_2)
aad_3(message3, message1, message2) ==
    message_digest(<<aad_2(message2, message1), message2.ciphertext>>)

\* the per-message key and IV of protocol.py
K(shared_secret, aad) ==
    derive_key(shared_secret, 16, cose_kdf_context("AES-CCM-64-64-128", 16, aad))
IV(shared_secret, aad) ==
    derive_key(shared_secret, 7, cose_kdf_context("IV-Generation", 7, aad))

\* ------------------------------------------------------------------- state
VARIABLES
    client,     \* client[i]: the fields of Client object i (an EdhocSession)
    server,     \* the fields of the one Server object
    cRet,       \* cRet[i]: what the last handshake call on client i returned or raised
    sRet,       \* sRet[i]: what the last on_receive call for a message of client i returned or raised
    net,        \* net[i]: the message in flight to the server and to client i
    runs,       \* runs[i]: calls of initiate_edhoc on client i so far
    tamper,     \* messages the attacker has altered, forged or replayed so far
    aead,       \* aead[e]: the (key, nonce) pairs endpoint e's encrypt calls gave the AEAD
    sealed,     \* sealed[e]: the payload and the ciphertext of endpoint e's last encrypt call
    opened,     \* opened[e]: the ciphertext and the outcome of endpoint e's last decrypt call
    cwt,        \* the CWT in flight: the arguments of encode, its bytes, and what decode made of them
    key_registry,   \* AuthorizationServer.key_registry: client id -> registered PoP key
    token_registry, \* AuthorizationServer.token_registry: the tokens added
    response,   \* the last HTTP response of the authorization server, with its request
    now,        \* time.time()
    requests    \* POST /token requests handled so far

edhocVars == <<client, server, cRet, sRet, net, runs, tamper, aead, sealed, opened>>
asVars == <<key_registry, token_registry, response, now, requests>>
vars == <<client, server, cRet, sRet, net, runs, tamper, aead, sealed, opened, cwt, asVars>>

\* EdhocSession.__init__ and EdhocSession.Session.__init__
EdhocSession ==
    [id |-> None, shared_secret |-> None, private_key |-> None, public_key |-> None,
     message1 |-> None, message2 |-> None, message3 |-> None, _oscore_context |-> None]

\* Server(sk, client_id): the one peer identity the server verifies MSG3 against
ServerClientId == get_verifying_key(ClientSk(1))
\* Client(sk, server_id)
ClientServerId == get_verifying_key(ServerSk)

Endpoints == AllClients \cup {0}

Init ==
    /\ client = [i \in AllClients |-> EdhocSession]
    /\ server = EdhocSession
    /\ cRet = [i \in AllClients |-> "constructed"]
    /\ sRet = [i \in AllClients |-> "constructed"]
    /\ net = [i \in AllClients |-> [toS |-> None, toC |-> None]]
    /\ runs = [i \in AllClients |-> 0]
    /\ tamper = 0
    /\ aead = [e \in Endpoints |-> <<>>]
    /\ sealed = [e \in Endpoints |-> None]
    /\ opened = [e \in Endpoints |-> None]
    /\ cwt = [claims |-> None, key |-> None, encoded |-> None, changed |-> {},
              vk |-> None, decoded |-> None]
    /\ key_registry = [id \in {<<"ace_client_1">>, <<"ace_client_2">>} |-> None]
    /\ token_registry = {}
    /\ response = [op |-> "none", request |-> None, status |-> 0, body |-> None]
    /\ now = 0
    /\ requests = 0

\* ------------------------------------------------------------------ Client
\* Client.initiate_edhoc
initiate_edhoc(i) ==
    /\ runs[i] < MaxRuns
    /\ \E r \in Draws :
         LET session_key == generate_private_key(r.d)
             public_session_key == public_key(session_key)
             message1 == Message1(r.session_id, r.nonce, public_session_key)
         IN /\ client' = [client EXCEPT ![i].id = r.session_id,
                                        ![i].private_key = session_key,
                                        ![i].public_key = public_session_key,
                                        ![i].message1 = message1]
            /\ net' = [net EXCEPT ![i].toS = message1]
    /\ cRet' = [cRet EXCEPT ![i] = "Message1"]
    /\ runs' = [runs EXCEPT ![i] = @ + 1]
    /\ UNCHANGED <<server, sRet, tamper, aead, sealed, opened, cwt, asVars>>

\* continue_edhoc_result without the check of the signature under server_id
continue_edhoc_result_unverified(self, message2) ==
    IF Arity(message2) # 6 THEN "ValueError"
    ELSE IF ~cose_key_loadable(message2.peer_ephemeral_key) THEN "KeyError"
    ELSE IF self.private_key = None THEN "AttributeError"
    ELSE LET ecdh_shared_secret ==
                 exchange(self.private_key, ecdh_cose_to_key(message2.peer_ephemeral_key))
             aad2 == aad_2(message2, self.message1)
         IN IF ~Encrypt0Decrypts(message2.ciphertext, K(ecdh_shared_secret, aad2),
                                 IV(ecdh_shared_secret, aad2), aad2)
            THEN "DecryptionFailed"
            ELSE "Message3"

\* What Client.continue_edhoc(message2) returns or raises on object `self`:
\* the statements that can raise, in the order the code runs them.
continue_edhoc_result(self, message2) ==
    IF Arity(message2) # 6 THEN "ValueError"
    ELSE IF ~cose_key_loadable(message2.peer_ephemeral_key) THEN "KeyError"
    ELSE IF self.private_key = None THEN "AttributeError"
    ELSE LET ecdh_shared_secret ==
                 exchange(self.private_key, ecdh_cose_to_key(message2.peer_ephemeral_key))
             aad2 == aad_2(message2, self.message1)
             k_2 == K(ecdh_shared_secret, aad2)
             iv_2 == IV(ecdh_shared_secret, aad2)
         IN IF ~Encrypt0Decrypts(message2.ciphertext, k_2, iv_2, aad2)
            THEN "DecryptionFailed"
            ELSE IF ~Signature1Verifies(message2.ciphertext.enc, ClientServerId, aad2)
            THEN "SignatureVerificationFailed"
            ELSE "Message3"

\* a MSG3 whose ciphertext_3 is no Encrypt0 of the session
continue_edhoc_message3_unsealed(self, sk, kid, message2) ==
    Message3(message2.peer_session_id, Garbage)

\* Client.continue_edhoc: the MSG3 it builds once MSG2 was accepted
continue_edhoc_message3(self, sk, kid, message2) ==
    LET ecdh_shared_secret ==
            exchange(self.private_key, ecdh_cose_to_key(message2.peer_ephemeral_key))
        aad3 == aad_3(None, self.message1, message2)
    IN Message3(message2.peer_session_id,
                Encrypt0Message(Signature1Message(sk, kid, aad3),
                                K(ecdh_shared_secret, aad3), IV(ecdh_shared_secret, aad3), aad3))

\* Client.continue_edhoc on the message in flight to client i
continue_edhoc(i) ==
    /\ net[i].toC # None
    /\ \E kid \in Kids :
         LET message2 == net[i].toC
             self == client[i]
             ret == continue_edhoc_result(self, message2)
             assigned == ret \in {"DecryptionFailed", "SignatureVerificationFailed", "Message3"}
             ecdh_shared_secret ==
                 exchange(self.private_key, ecdh_cose_to_key(message2.peer_ephemeral_key))
             message3 == continue_edhoc_message3(self, ClientSk(i), kid, message2)
         IN /\ cRet' = [cRet EXCEPT ![i] = ret]
            /\ client' = [client EXCEPT
                 ![i].shared_secret = IF assigned THEN ecdh_shared_secret ELSE @,
                 ![i].message2 = IF assigned THEN message2 ELSE @,
                 ![i].message3 = IF ret = "Message3" THEN message3 ELSE @]
            /\ net' = [net EXCEPT ![i].toC = None,
                                  ![i].toS = IF ret = "Message3" THEN message3 ELSE @]
    /\ UNCHANGED <<server, sRet, runs, tamper, aead, sealed, opened, cwt, asVars>>

\* ------------------------------------------------------------------ Server
\* What Server.on_receive(message) returns or raises
on_receive_result(self, message) ==
    IF message.tag = EDHOC_MSG_1
    THEN \* on_msg_1: Message1.from_bytes raises on anything but a MSG1 array
         IF Arity(message) # 4 THEN "ValueError"
         ELSE IF ~cose_key_loadable(message.ephemeral_key) THEN "KeyError"
         ELSE "Message2"
    ELSE IF message.tag = EDHOC_MSG_3
    THEN \* on_msg_3
         IF Arity(message) # 3 THEN "ValueError"
         ELSE IF self.message1 = None \/ self.message2 = None THEN "TypeError"
         ELSE LET aad3 == aad_3(message, self.message1, self.message2)
                  k_3 == K(self.shared_secret, aad3)
                  iv_3 == IV(self.shared_secret, aad3)
              IN IF ~Encrypt0Decrypts(message.ciphertext, k_3, iv_3, aad3)
                 THEN "DecryptionFailed"
                 ELSE IF ~Signature1Verifies(message.ciphertext.enc, ServerClientId, aad3)
                 THEN "SignatureVerificationFailed"
                 ELSE "MessageOk"
    ELSE "None"

\* Server.on_msg_1: the session it sets up and the MSG2 it answers with
on_msg_1_message2(sk, message1, session_id, nonce, session_key) ==
    LET ecdh_shared_secret == exchange(session_key, ecdh_cose_to_key(message1.ephemeral_key))
        unsigned == Message2(message1.session_id, session_id, nonce, public_key(session_key), None)
        aad2 == aad_2(unsigned, message1)
    IN Message2(message1.session_id, session_id, nonce, public_key(session_key),
                Encrypt0Message(Signature1Message(sk, <<"server">>, aad2),
                                K(ecdh_shared_secret, aad2), IV(ecdh_shared_secret, aad2), aad2))

on_msg_1(self, message, session_id, nonce, d) ==
    LET session_key == generate_private_key(d)
    IN [self EXCEPT
          !.message1 = message,
          !.id = session_id,
          !.private_key = session_key,
          !.public_key = public_key(session_key),
          !.shared_secret = exchange(session_key, ecdh_cose_to_key(message.ephemeral_key)),
          !.message2 = on_msg_1_message2(ServerSk, message, session_id, nonce, session_key)]

\* on_msg_3 that keeps the echoed session id and drops the rest of the message
on_msg_3_truncated(self, message) ==
    [self EXCEPT !.message3 = Message3(message.peer_session_id, None)]

\* Server.on_msg_3 stores the message before it checks anything
on_msg_3(self, message) == [self EXCEPT !.message3 = message]

\* Server.on_receive on the message in flight from client i
on_receive(i) ==
    /\ net[i].toS # None
    /\ LET message == net[i].toS
           ret == on_receive_result(server, message)
       IN /\ sRet' = [sRet EXCEPT ![i] = ret]
          /\ IF ret = "Message2"
             THEN \E r \in Draws :
                    /\ server' = on_msg_1(server, message, r.session_id, r.nonce, r.d)
                    /\ net' = [net EXCEPT ![i].toS = None, ![i].toC = server'.message2]
             ELSE /\ server' = IF message.tag = EDHOC_MSG_3 /\ Arity(message) = 3
                               THEN on_msg_3(server, message)
                               ELSE server
                  /\ net' = [net EXCEPT ![i].toS = None]
    /\ UNCHANGED <<client, cRet, runs, tamper, aead, sealed, opened, cwt, asVars>>

\* ------------------------------------------------------------ EdhocSession
\* oscore_context raises TypeError while a message or the shared secret is None
derivable(self) ==
    /\ self.message1 # None
    /\ self.message2 # None
    /\ self.message3 # None
    /\ self.shared_secret # None

\* TH_4 = H(TH_3 || ciphertext_3), TH_3 = H(TH_2 || ciphertext_2),
\* TH_2 = H(MSG1 || data_2)
TH_4(self) ==
    message_digest(<<aad_3(self.message3, self.message1, self.message2),
                     self.message3.ciphertext>>)

\* the OscoreContext derived with TH_4 as the exchange hash
derive_oscore_context_th4(self) ==
    [master_secret |->
        derive_key(self.shared_secret, 128 \div 8,
                   cose_kdf_context("EDHOC OSCORE Master Secret", 128 \div 8, TH_4(self))),
     master_salt |->
        derive_key(self.shared_secret, 56 \div 8,
                   cose_kdf_context("EDHOC OSCORE Master Salt", 56 \div 8, TH_4(self)))]

\* the OscoreContext the property body computes from the fields of `self`
derive_oscore_context(self) ==
    LET exchange_hash ==
            message_digest(<<message_digest(<<self.message1, self.message2>>), self.message3>>)
    IN [master_secret |->
            derive_key(self.shared_secret, 128 \div 8,
                       cose_kdf_context("EDHOC OSCORE Master Secret", 128 \div 8, exchange_hash)),
        master_salt |->
            derive_key(self.shared_secret, 56 \div 8,
                       cose_kdf_context("EDHOC OSCORE Master Salt", 56 \div 8, exchange_hash))]

\* EdhocSession.oscore_context: the value the property returns (it is computed
\* once and kept in _oscore_context)
oscore_context(self) ==
    IF self._oscore_context = None THEN derive_oscore_context(self) ELSE self._oscore_context

\* whether reading the property returns a value instead of raising
oscore_context_readable(self) == self._oscore_context # None \/ derivable(self)

\* the object of endpoint e: 0 is the server, i > 0 is client i
Self(e) == IF e = 0 THEN server ELSE client[e]

\* the state after the object of endpoint e got the value `ctx` cached
cache_context(e, ctx) ==
    /\ server' = IF e = 0 THEN [server EXCEPT !._oscore_context = ctx] ELSE server
    /\ client' = IF e = 0 THEN client ELSE [client EXCEPT ![e]._oscore_context = ctx]

\* a caller reads endpoint e's oscore_context
read_oscore_context(e) ==
    /\ oscore_context_readable(Self(e))
    /\ Self(e)._oscore_context = None
    /\ cache_context(e, oscore_context(Self(e)))
    /\ UNCHANGED <<cRet, sRet, net, runs, tamper, aead, sealed, opened, cwt, asVars>>

\* encrypt_key_nonce with the key and the nonce in each other's place
encrypt_key_nonce_swapped(self) ==
    <<oscore_context(self).master_salt, oscore_context(self).master_secret>>

\* the (key, nonce) pair EdhocSession.encrypt hands to the AEAD
encrypt_key_nonce(self) ==
    <<oscore_context(self).master_secret, oscore_context(self).master_salt>>

\* the bytes EdhocSession.encrypt(payload) returns: serialize is called with
\* iv and key and no external_aad
encrypt_ciphertext(self, payload) ==
    Encrypt0Message(payload, encrypt_key_nonce(self)[1], encrypt_key_nonce(self)[2], <<>>)

\* EdhocSession.encrypt(payload) on endpoint e
encrypt(e) ==
    /\ Len(aead[e]) < MaxEncrypt
    /\ oscore_context_readable(Self(e))
    /\ \E payload \in Payloads :
         /\ aead' = [aead EXCEPT ![e] = Append(@, encrypt_key_nonce(Self(e)))]
         /\ sealed' = [sealed EXCEPT ![e] = [payload |-> payload,
                                             ciphertext |-> encrypt_ciphertext(Self(e), payload)]]
    /\ cache_context(e, oscore_context(Self(e)))
    /\ UNCHANGED <<cRet, sRet, net, runs, tamper, opened, cwt, asVars>>

\* what EdhocSession.decrypt(ciphertext) returns or raises on object `self`:
\* Encrypt0Message.decrypt with iv = master_salt, key = master_secret and
\* external_aad = b''
decrypt_result(self, ciphertext) ==
    IF ~oscore_context_readable(self) THEN <<"TypeError">>
    ELSE IF ~Encrypt0Decrypts(ciphertext, oscore_context(self).master_secret,
                              oscore_context(self).master_salt, <<>>)
    THEN <<"DecryptionFailed">>
    ELSE ciphertext.enc

\* EdhocSession.decrypt on endpoint e of the ciphertext endpoint `from` sent last
decrypt(e, from) ==
    /\ sealed[from] # None
    /\ LET ciphertext == sealed[from].ciphertext
           plaintext == decrypt_result(Self(e), ciphertext)
       IN /\ opened[e] # [ciphertext |-> ciphertext, plaintext |-> plaintext]
          /\ opened' = [opened EXCEPT ![e] = [ciphertext |-> ciphertext,
                                              plaintext |-> plaintext]]
    /\ IF oscore_context_readable(Self(e))
       THEN cache_context(e, oscore_context(Self(e)))
       ELSE UNCHANGED <<client, server>>
    /\ UNCHANGED <<cRet, sRet, net, runs, tamper, aead, sealed, cwt, asVars>>

\* ------------------------------------------------------ CWT (ace/cose/cwt.py)
\* cbor2.dumps and cbor2.loads
dumps(value) == [cbor |-> value]
loads(bytes) == bytes.cbor

\* Signature1Message(payload, protected_header, unprotected_header)
\* .serialize_signed(key): the array [protected, unprotected, payload, signature]
\* with the signature over Sig_structure, external_aad empty
serialize_signed(payload, protected_header, unprotected_header, key) ==
    [protected |-> protected_header,
     unprotected |-> unprotected_header,
     payload |-> payload,
     signature |-> [signer |-> key.sk,
                    sig_structure |-> <<"Signature1", protected_header, <<>>, payload>>]]

\* cwt.encode(claims, key, kid)
encode(claims, key, kid) ==
    LET protected == [alg |-> "ES256"]
        unprotected == [kid |-> kid]
    IN serialize_signed(dumps(claims), dumps(protected), dumps(unprotected), key)

\* what Signature1Message.verify raises on a signature that does not verify
SignatureInvalid == [raised |-> "SignatureInvalid"]

\* decode that returns the payload without verifying the signature
decode_unverified(encoded, key) == loads(encoded.payload)

\* cwt.decode(encoded, key): the claims, or what Signature1Message.verify raises
decode(encoded, key) ==
    IF Signature1Verifies(encoded, key, <<>>)
    THEN loads(encoded.payload)
    ELSE SignatureInvalid

\* the inputs of encode and decode
ClaimMaps == {[iss |-> <<"ace.as-server.com">>, scope |-> <<scope>>, aud |-> <<aud>>] :
                 scope \in {"read", "write"}, aud \in {"tempSensor0"}}
ASSk == [sk |-> <<"as">>]
SigningKeys == {ASSk, IntruderSk}
CwtKids == {<<"as-kid">>, <<"other-kid">>}

\* the parts of an encoded token, and the values a part can be changed to
CwtParts == {"protected", "unprotected", "payload", "signature"}
CwtPartValues(part) ==
    CASE part = "protected" -> {dumps([alg |-> a]) : a \in {"ES256", "ES384"}}
      [] part = "unprotected" -> {dumps([kid |-> kid]) : kid \in CwtKids}
      [] part = "payload" -> {dumps(claims) : claims \in ClaimMaps}
      [] part = "signature" ->
           {encode(claims, key, <<"as-kid">>).signature :
               claims \in ClaimMaps, key \in SigningKeys}

\* a caller encodes a token
CwtEncode ==
    /\ cwt.encoded = None
    /\ \E claims \in ClaimMaps, key \in SigningKeys, kid \in CwtKids :
         cwt' = [cwt EXCEPT !.claims = claims, !.key = key,
                            !.encoded = encode(claims, key, kid)]
    /\ UNCHANGED <<edhocVars, asVars>>

\* one part of the encoded token is changed on its way
CwtChange ==
    /\ cwt.encoded # None
    /\ cwt.decoded = None
    /\ cwt.changed = {}
    /\ \E part \in CwtParts :
         \E v \in CwtPartValues(part) \ {cwt.encoded[part]} :
            cwt' = [cwt EXCEPT !.encoded[part] = v, !.changed = {part}]
    /\ UNCHANGED <<edhocVars, asVars>>

\* a caller decodes the token with a verifying key
CwtDecode ==
    /\ cwt.encoded # None
    /\ cwt.decoded = None
    /\ \E key \in SigningKeys :
         cwt' = [cwt EXCEPT !.vk = get_verifying_key(key),
                            !.decoded = decode(cwt.encoded, get_verifying_key(key))]
    /\ UNCHANGED <<edhocVars, asVars>>

\* ------------------------------------------- authorization server (as/__init__.py)
\* seconds a token is valid for: EXP = int(time.time() + 7200.0)
TokenLifetime == 7200

\* the one client __init__ registers, and what requests may carry instead
RegisteredClient ==
    [client_id |-> <<"ace_client_1">>, client_secret |-> <<"ace_client_1_secret_123456">>]
ClientIds == {RegisteredClient.client_id, <<"ace_client_2">>}
ClientSecrets == {RegisteredClient.client_secret, <<"wrong_secret">>}
PopKeys == {get_verifying_key(ClientSk(i)) : i \in AllClients}
Ctis == {<<"00aa">>, <<"00bb">>}
\* seconds that may pass between the two time.time() calls of _bind_token
ClockDrift == {0, 1}

\* CoseKey(key, ...).encode() and CoseKey.from_cose(cose)
CoseKeyEncode(key) == [kty |-> "EC2", crv |-> "P-256", point |-> key.vk]
from_cose(cose) == [vk |-> cose.point]

\* the CBOR map of a token request that carries every field of the schema
FullTokenRequest(client_id, client_secret, key) ==
    [grant_type |-> <<"client_credentials">>,
     client_id |-> client_id,
     client_secret |-> client_secret,
     aud |-> <<"tempSensor0">>,
     scope |-> <<"read">>,
     cnf |-> [COSE_KEY |-> CoseKeyEncode(key)]]

TokenRequestFields == {"grant_type", "client_id", "client_secret", "aud", "scope", "cnf"}

\* the map `params` without the key `field`
Omit(params, field) == [f \in (DOMAIN params) \ {field} |-> params[f]]

\* claims of its own that a request carries next to the fields of the schema
OverridingClaims ==
    [iss |-> <<"intruder">>, iat |-> 0 - 1, exp |-> 1000000, cti |-> <<"ffff">>]

\* the bodies POSTed to /token: complete requests, requests that lack one
\* field, a request that lacks a field and carries a wrong secret, a cnf
\* without COSE_KEY, and the CBOR null
TokenRequests ==
    LET good == FullTokenRequest(RegisteredClient.client_id, RegisteredClient.client_secret,
                                 get_verifying_key(ClientSk(1)))
        wrong == FullTokenRequest(RegisteredClient.client_id, <<"wrong_secret">>,
                                  get_verifying_key(ClientSk(1)))
    IN {FullTokenRequest(id, secret, key) :
           id \in ClientIds, secret \in ClientSecrets, key \in PopKeys}
       \cup {Omit(good, field) : field \in TokenRequestFields}
       \cup {Omit(wrong, "aud"), [good EXCEPT !.cnf = [kid |-> <<"client-1234">>]], None}
       \cup {OverridingClaims @@ good}

\* ClientRegistry.check_secret, reached through verify_client
verify_client(client_id, client_secret) ==
    /\ client_id = RegisteredClient.client_id
    /\ client_secret = RegisteredClient.client_secret

\* AuthorizationServer._verify_token_request
_verify_token_request(request_data) ==
    IF request_data = None
    THEN FALSE
    ELSE \A key \in {"grant_type", "client_id", "client_secret", "aud"} :
            key \in DOMAIN request_data

\* token_outcome without the verify_client step
token_outcome_unchecked(params) ==
    IF ~_verify_token_request(params) THEN "invalid_request"
    ELSE IF "cnf" \notin DOMAIN params THEN "KeyError"
    ELSE IF "COSE_KEY" \notin DOMAIN params.cnf THEN "KeyError"
    ELSE IF "scope" \notin DOMAIN params THEN "KeyError"
    ELSE "ok"

\* how AuthorizationServer.token leaves for the body `params`: the error code
\* of the 400 it returns, the exception a statement raises, or "ok"
token_outcome(params) ==
    IF ~_verify_token_request(params) THEN "invalid_request"
    ELSE IF ~verify_client(params.client_id, params.client_secret) THEN "unauthorized_client"
    ELSE IF "cnf" \notin DOMAIN params THEN "KeyError"
    ELSE IF "COSE_KEY" \notin DOMAIN params.cnf THEN "KeyError"
    ELSE IF "scope" \notin DOMAIN params THEN "KeyError"
    ELSE "ok"

\* client claims that are the whole request
client_claims_all(params) == params

\* the client claims AuthorizationServer.token takes from the request
client_claims_of(params) == [k \in {"scope", "aud"} |-> params[k]]

\* AuthorizationServer._bind_token: an AccessToken with the claims and the
\* bound key; `time` and `time_exp` are what the two calls of time.time() return
_bind_token(client_claims, session_key, cti, time, time_exp) ==
    LET claims == [iss |-> <<"ace.as-server.com">>,
                   iat |-> time,
                   exp |-> time_exp + TokenLifetime,
                   cti |-> cti]
    IN [claims |-> client_claims @@ claims, bound_key |-> session_key]

\* AccessToken.sign_and_export_self_contained: the CWT of the claims and the
\* CNF claim that holds the bound key
sign_and_export_self_contained(token, signature_key) ==
    encode(("cnf" :> [COSE_KEY |-> CoseKeyEncode(token.bound_key)]) @@ token.claims,
           signature_key, <<"as-kid">>)

\* KeyRegistry.add_key and TokenRegistry.add_token
add_key(registry, client_id, key) == [registry EXCEPT ![client_id] = key]
add_token(registry, token) == registry \cup {token}

\* TokenRegistry.get_token(reference): the token the reference was exported from
get_token(registry, reference) ==
    LET found == {t \in registry : sign_and_export_self_contained(t, ASSk) = reference}
    IN IF found = {} THEN None ELSE CHOOSE t \in found : TRUE

\* what an unhandled exception becomes at the HTTP surface
Unhandled(params, op, exception) ==
    [op |-> op, request |-> params, status |-> 500, body |-> [raised |-> exception]]

\* POST /token with body `params`
token(params) ==
    /\ requests < MaxRequests
    /\ requests' = requests + 1
    /\ LET outcome == token_outcome(params)
       IN IF outcome = "ok"
          THEN \E cti \in Ctis, drift \in ClockDrift :
                 LET client_id == params.client_id
                     client_pop_key == from_cose(params.cnf.COSE_KEY)
                     client_claims == client_claims_of(params)
                     token_ == _bind_token(client_claims, client_pop_key, cti, now, now + drift)
                     token_sent == sign_and_export_self_contained(token_, ASSk)
                 IN /\ key_registry' = add_key(key_registry, client_id, client_pop_key)
                    /\ token_registry' = add_token(token_registry, token_)
                    /\ response' = [op |-> "token", request |-> params, status |-> 200,
                                    body |-> dumps([access_token |-> token_sent,
                                                    token_type |-> "pop",
                                                    profile |-> "coap_oscore",
                                                    rs_cnf |-> <<"rs_pub_key">>])]
          ELSE /\ UNCHANGED <<key_registry, token_registry>>
               /\ response' = IF outcome = "KeyError"
                              THEN Unhandled(params, "token", outcome)
                              ELSE [op |-> "token", request |-> params, status |-> 400,
                                    body |-> dumps([error |-> outcome])]
    /\ UNCHANGED <<edhocVars, cwt, now>>

\* the bodies POSTed to /introspect: the token of a registered or of no
\* registered AccessToken, with and without the hint, or no token at all
IntrospectRequests ==
    LET references == {sign_and_export_self_contained(t, ASSk) : t \in token_registry}
                         \cup {encode([iss |-> <<"nobody">>], IntruderSk, <<"as-kid">>)}
    IN {[token |-> r, token_type_hint |-> <<"pop">>] : r \in references}
       \cup {[token |-> r] : r \in references}
       \cup {[token_type_hint |-> <<"pop">>]}

\* how AuthorizationServer.introspect leaves for the body `params`
introspect_outcome(params) ==
    IF "token" \notin DOMAIN params THEN "missing"
    ELSE IF "token_type_hint" \notin DOMAIN params THEN "KeyError"
    ELSE IF get_token(token_registry, params.token) = None THEN "AttributeError"
    ELSE "ok"

\* POST /introspect with body `params`
introspect(params) ==
    /\ LET outcome == introspect_outcome(params)
           access_context == get_token(token_registry, params.token)
       IN response' =
            IF outcome = "missing"
            THEN [op |-> "introspect", request |-> params, status |-> 400,
                  body |-> dumps([error |-> "missing \"token\" parameter"])]
            ELSE IF outcome = "ok"
            THEN [op |-> "introspect", request |-> params, status |-> 201,
                  body |-> dumps([active |-> TRUE,
                                  scope |-> access_context.claims.scope,
                                  aud |-> access_context.claims.aud,
                                  iss |-> access_context.claims.iss,
                                  exp |-> access_context.claims.exp,
                                  iat |-> access_context.claims.iat,
                                  cnf |-> [COSE_KEY |->
                                              CoseKeyEncode(access_context.bound_key)]])]
            ELSE Unhandled(params, "introspect", outcome)
    /\ response' # response
    /\ UNCHANGED <<edhocVars, cwt, key_registry, token_registry, now, requests>>

\* time passes
Tick ==
    /\ now < MaxTicks * TokenLifetime
    /\ now' = now + TokenLifetime
    /\ UNCHANGED <<edhocVars, cwt, key_registry, token_registry, response, requests>>

\* ---------------------------------------------------------------- attacker
\* The network between client i and the server is the attacker's: it can
\* alter a field of a message in flight, replay a message it has seen, and
\* run the protocol itself with its own long-term and ephemeral keys.
IntruderKey == generate_private_key(CHOOSE d \in IntruderScalars : TRUE)
IntruderMessage1 == Message1(IntruderSid, IntruderNonce, public_key(IntruderKey))
InvalidCoseKey == [kty |-> "EC2", crv |-> <<"unknown">>, x |-> 0, y |-> 0]

\* the values the attacker may write into field f
FieldValues(f) ==
    CASE f = "tag" -> 0 .. 3
      [] f \in {"session_id", "peer_session_id"} -> SessionIds \cup {IntruderSid}
      [] f \in {"nonce", "peer_nonce"} -> Nonces \cup {IntruderNonce}
      [] f \in {"ephemeral_key", "peer_ephemeral_key"} ->
           {ecdh_key_to_cose(public_key(generate_private_key(d))) :
               d \in EphScalars \cup IntruderScalars} \cup {InvalidCoseKey}
      [] f = "ciphertext" -> {Garbage}

\* a field of the MSG2 or MSG3 in flight is overwritten
Tamper(i) ==
    /\ tamper < MaxTamper
    /\ tamper' = tamper + 1
    /\ \E slot \in {"toS", "toC"} :
         /\ net[i][slot] # None
         /\ net[i][slot].tag \in {EDHOC_MSG_2, EDHOC_MSG_3}
         /\ \E f \in DOMAIN net[i][slot] :
              \E v \in FieldValues(f) \ {net[i][slot][f]} :
                 net' = [net EXCEPT ![i][slot] = [@ EXCEPT ![f] = v]]
    /\ UNCHANGED <<client, server, cRet, sRet, runs, aead, sealed, opened, cwt, asVars>>

\* a message that went over the wire before is put on the wire again
Replay(i) ==
    /\ tamper < MaxTamper
    /\ tamper' = tamper + 1
    /\ \/ /\ client[i].message1 # None
          /\ net' = [net EXCEPT ![i].toS = client[i].message1]
       \/ /\ client[i].message3 # None
          /\ net' = [net EXCEPT ![i].toS = client[i].message3]
       \/ /\ server.message2 # None
          /\ net' = [net EXCEPT ![i].toC = server.message2]
    /\ UNCHANGED <<client, server, cRet, sRet, runs, aead, sealed, opened, cwt, asVars>>

\* the attacker answers the client's MSG1 as a server of its own would
ForgeMessage2(i) ==
    /\ tamper < MaxTamper
    /\ tamper' = tamper + 1
    /\ client[i].message1 # None
    /\ net' = [net EXCEPT ![i].toC =
                 on_msg_1_message2(IntruderSk, client[i].message1,
                                   IntruderSid, IntruderNonce, IntruderKey)]
    /\ UNCHANGED <<client, server, cRet, sRet, runs, aead, sealed, opened, cwt, asVars>>

\* the attacker starts a handshake with the server as a client of its own would
IntruderInitiate(i) ==
    /\ tamper < MaxTamper
    /\ tamper' = tamper + 1
    /\ net' = [net EXCEPT ![i].toS = IntruderMessage1]
    /\ UNCHANGED <<client, server, cRet, sRet, runs, aead, sealed, opened, cwt, asVars>>

\* the attacker sends the server a MSG3 that answers no MSG2
InjectMessage3(i) ==
    /\ tamper < MaxTamper
    /\ tamper' = tamper + 1
    /\ net' = [net EXCEPT ![i].toS = Message3(IntruderSid, Garbage)]
    /\ UNCHANGED <<client, server, cRet, sRet, runs, aead, sealed, opened, cwt, asVars>>

\* EDHOC-Error: the CBOR array [0, sess_id, diagnostic_text]
EDHOC_ERROR == 0
ErrorMessage(peer_session_id) ==
    [tag |-> EDHOC_ERROR, peer_session_id |-> peer_session_id, err_msg |-> <<"diagnostic">>]

\* an EDHOC-Error is put on the wire, to the client or to the server
InjectError(i) ==
    /\ tamper < MaxTamper
    /\ tamper' = tamper + 1
    /\ \/ /\ client[i].message1 # None
          /\ net' = [net EXCEPT ![i].toC = ErrorMessage(client[i].id)]
       \/ net' = [net EXCEPT ![i].toS = ErrorMessage(IntruderSid)]
    /\ UNCHANGED <<client, server, cRet, sRet, runs, aead, sealed, opened, cwt, asVars>>

\* ... and answers the server's MSG2 with a MSG3 signed by its own key
ForgeMessage3(i) ==
    /\ server.message1 = IntruderMessage1
    /\ net[i].toC = server.message2
    /\ \E kid \in Kids :
         net' = [net EXCEPT
                   ![i].toC = None,
                   ![i].toS = continue_edhoc_message3(
                                 [private_key |-> IntruderKey, message1 |-> IntruderMessage1],
                                 IntruderSk, kid, server.message2)]
    /\ UNCHANGED <<client, server, cRet, sRet, runs, tamper, aead, sealed, opened, cwt, asVars>>

\* ---------------------------------------------------------- specifications
\* one client and the server, over a network that delivers what was sent, once
\* and in order; the client may start over, and callers read the context and
\* encrypt under it
Next ==
    \/ \E i \in {1} :
         \/ initiate_edhoc(i)
         \/ continue_edhoc(i)
         \/ on_receive(i)
    \/ \E e \in {0, 1} : read_oscore_context(e)

Spec == Init /\ [][Next]_vars

\* one handshake of one client with the server, over a network that delivers
\* what was sent, and the use of the established sessions
UseNext ==
    \/ \E i \in {1} :
         \/ runs[i] = 0 /\ initiate_edhoc(i)
         \/ continue_edhoc(i)
         \/ on_receive(i)
    \/ \E e \in {0, 1} : encrypt(e)
    \/ \E e \in {0, 1} : decrypt(e, 1 - e)

UseSpec == Init /\ [][UseNext]_vars

\* the steps of the handshake: the caller hands each message a step returns to
\* the peer's next step, so a step that can be taken is taken
HandshakeStep ==
    \E i \in {1} :
       \/ runs[i] = 0 /\ initiate_edhoc(i)
       \/ continue_edhoc(i)
       \/ on_receive(i)

FairSpec == Init /\ [][UseNext]_vars /\ WF_vars(HandshakeStep)

\* one handshake of one client with the server, over a network the attacker
\* controls
AttackNext ==
    \E i \in {1} :
      \/ runs[i] = 0 /\ initiate_edhoc(i)
      \/ continue_edhoc(i)
      \/ on_receive(i)
      \/ Tamper(i)
      \/ Replay(i)
      \/ ForgeMessage2(i)
      \/ IntruderInitiate(i)
      \/ InjectMessage3(i)
      \/ InjectError(i)
      \/ ForgeMessage3(i)

AttackSpec == Init /\ [][AttackNext]_vars

\* two clients and the server, one handshake each, over a network that
\* delivers what was sent; the handshakes may interleave
MultiNext ==
    \/ \E i \in AllClients :
         \/ runs[i] = 0 /\ initiate_edhoc(i)
         \/ continue_edhoc(i)
         \/ on_receive(i)
    \/ \E e \in Endpoints : read_oscore_context(e)

MultiSpec == Init /\ [][MultiNext]_vars

\* tokens are encoded, changed on the way and decoded
CwtNext == CwtEncode \/ CwtChange \/ CwtDecode

CwtSpec == Init /\ [][CwtNext]_vars

\* clients POST to /token and /introspect of the authorization server while
\* time passes
ASNext ==
    \/ \E params \in TokenRequests : token(params)
    \/ \E params \in IntrospectRequests : introspect(params)
    \/ Tick

ASSpec == Init /\ [][ASNext]_vars

\* ------------------------------------------------------------------ claims
\* the states of section 4.6 that the claims name, read off the last call
ClientEstablished(i) == cRet[i] = "Message3"
ServerEstablished(i) == sRet[i] = "MessageOk"
ServerSent2(i) == sRet[i] = "Message2"

C2_PeerAuthenticated ==
    /\ ClientEstablished(1) =>
         LET self == client[1]
             aad2 == aad_2(self.message2, self.message1)
         IN /\ Encrypt0Decrypts(self.message2.ciphertext, K(self.shared_secret, aad2),
                                IV(self.shared_secret, aad2), aad2)
            /\ self.message2.ciphertext.enc.signature.signer = ServerSk.sk
            /\ Signature1Verifies(self.message2.ciphertext.enc,
                                  get_verifying_key(ServerSk), aad2)
    /\ ServerEstablished(1) =>
         LET aad3 == aad_3(server.message3, server.message1, server.message2)
         IN /\ Encrypt0Decrypts(server.message3.ciphertext, K(server.shared_secret, aad3),
                                IV(server.shared_secret, aad3), aad3)
            /\ server.message3.ciphertext.enc.signature.signer = ClientSk(1).sk
            /\ Signature1Verifies(server.message3.ciphertext.enc,
                                  get_verifying_key(ClientSk(1)), aad3)

\* both sides Established although the attacker acted
C2_Witness ==
    /\ ClientEstablished(1) /\ ServerEstablished(1)
    /\ tamper > 0

\* C3: a MSG2 that reaches the client different from the MSG2 the server sent
\* does not make the client emit MSG3, and a MSG3 that reaches the server
\* different from the MSG3 the client sent does not make the server return
\* MessageOk.
C3_MutationRejected ==
    [][/\ (continue_edhoc(1) /\ net[1].toC # server.message2) => ~ClientEstablished(1)'
       /\ (on_receive(1) /\ ClientEstablished(1) /\ net[1].toS # client[1].message3)
            => ~ServerEstablished(1)']_vars

\* C3, the half that holds: a MSG2 other than the one the server sent is rejected
C3_Message2MutationRejected ==
    [][(continue_edhoc(1) /\ net[1].toC # server.message2) => ~ClientEstablished(1)']_vars

\* C4: the server rejects a MSG3 that arrives before any MSG1 was processed and
\* a second MSG3 after Established; the client rejects a MSG2 before it sent
\* MSG1 and a MSG2 after it has processed one.
C4_OutOfOrderRejected ==
    [][/\ (on_receive(1) /\ net[1].toS.tag = EDHOC_MSG_3
             /\ (server.message1 = None \/ ServerEstablished(1)))
            => ~ServerEstablished(1)'
       /\ (continue_edhoc(1) /\ (client[1].message1 = None \/ client[1].message2 # None))
            => ~ClientEstablished(1)']_vars

\* C5: a MSG1 received in Sent2 leaves message1, message2, the session id, the
\* ephemeral key pair and the shared secret of the server unchanged, and
\* produces no MSG2.
C5_DuplicateMessage1Rejected ==
    [][(on_receive(1) /\ net[1].toS.tag = EDHOC_MSG_1 /\ ServerSent2(1))
         => (server' = server /\ ~ServerSent2(1)' /\ net'[1].toC = net[1].toC)]_vars

\* what continue_edhoc and on_msg_3 raise when decoding, decryption or the
\* signature check fails
HandshakeFailures == {"ValueError", "KeyError", "DecryptionFailed", "SignatureVerificationFailed"}
Erased(self) ==
    /\ self.shared_secret = None
    /\ self.private_key = None
    /\ self.message2 = None
    /\ self.message3 = None
    /\ ~derivable(self)

\* C6: after continue_edhoc or on_msg_3 failed, the session holds no shared
\* secret, no ephemeral private key and no stored message of the failed step,
\* and no OSCORE context can be derived from it.
C6_NoPartialState ==
    /\ cRet[1] \in HandshakeFailures => Erased(client[1])
    /\ (sRet[1] \in {"DecryptionFailed", "SignatureVerificationFailed"}) => Erased(server)

\* C7: in Established the session's ephemeral private key is no longer held.
C7_EphemeralKeyDestroyed ==
    /\ ClientEstablished(1) => client[1].private_key = None
    /\ ServerEstablished(1) => server.private_key = None

\* C8: no two encrypt calls of one session give the AEAD the same (key, nonce).
C8_NoNonceReuse ==
    \A e \in Endpoints :
       \A j, k \in 1 .. Len(aead[e]) : j # k => aead[e][j] # aead[e][k]

\* the MSG3 of client i was delivered to the server
Message3Delivered(i) == ClientEstablished(i) /\ net[i].toS = None /\ sRet[i] # "Message2"

\* C9: with two clients, each handshake whose three messages were delivered
\* completes, and the server's context for a client equals that client's.
C9_TwoClients ==
    \A i \in AllClients :
       Message3Delivered(i) =>
          /\ ServerEstablished(i)
          /\ (\A j \in AllClients : Message3Delivered(j)) =>
                derive_oscore_context(server) = derive_oscore_context(client[i])

\* the key identifiers registered with the server (add_peer_identity)
RegisteredKids == {<<"client-1234">>}

\* C10: the server is Established only on a MSG3 whose inner Sign1 carries a
\* registered KID.
C10_UnknownKidRejected ==
    ServerEstablished(1) => server.message3.ciphertext.enc.unprotected.kid \in RegisteredKids

\* what a handshake call returns when it raises nothing
Returns == {"None", "Message1", "Message2", "Message3", "MessageOk"}

\* C11: continue_edhoc on a message whose tag is 0 (EDHOC-Error) or any tag
\* other than 2 fails, and Server.on_receive on a message whose tag is neither
\* 1 nor 3 fails: it raises, it does not return as if nothing had happened.
C11_UnexpectedTagFails ==
    [][/\ (continue_edhoc(1) /\ net[1].toC.tag # EDHOC_MSG_2) => cRet'[1] \notin Returns
       /\ (on_receive(1) /\ net[1].toS.tag \notin {EDHOC_MSG_1, EDHOC_MSG_3})
            => sRet'[1] \notin Returns]_vars

\* C11, the half that holds: the client fails on every tag other than 2
C11_ClientUnexpectedTagFails ==
    [][(continue_edhoc(1) /\ net[1].toC.tag # EDHOC_MSG_2) => cRet'[1] \notin Returns]_vars

\* C12: after a completed run between the honest client and the honest server,
\* what one endpoint's encrypt made of a payload the other endpoint's decrypt
\* turns back into that payload, in both directions.
C12_EncryptDecryptRoundTrip ==
    [][\A e \in {0, 1} :
         (decrypt(e, 1 - e) /\ ClientEstablished(1) /\ ServerEstablished(1))
            => opened'[e].plaintext = sealed[1 - e].payload]_vars

\* both directions were used, with different payloads
C12_Witness ==
    /\ ClientEstablished(1) /\ ServerEstablished(1)
    /\ sealed[0] # None /\ sealed[1] # None
    /\ sealed[0].payload # sealed[1].payload
    /\ opened[0] = [ciphertext |-> sealed[1].ciphertext, plaintext |-> sealed[1].payload]
    /\ opened[1] = [ciphertext |-> sealed[0].ciphertext, plaintext |-> sealed[0].payload]

\* C13: in a run of the honest client and the honest server in which every
\* message a step produces is delivered unchanged to the peer, no step fails
\* and both endpoints eventually are Established.
C13_HonestRunCompletes ==
    /\ [](cRet[1] \in Returns \cup {"constructed"} /\ sRet[1] \in Returns \cup {"constructed"})
    /\ <>[](ClientEstablished(1) /\ ServerEstablished(1))

\* the three messages were delivered and both sides are Established
C13_Witness ==
    /\ ClientEstablished(1) /\ ServerEstablished(1)
    /\ net[1] = [toS |-> None, toC |-> None]
    /\ runs[1] = 1

\* C14: the OSCORE context of an endpoint carries a sender_id and a
\* recipient_id, which are the two session ids of the run; the client's
\* sender_id is the server's recipient_id and the client's recipient_id the
\* server's sender_id.
C14_SwappedIds ==
    (ClientEstablished(1) /\ ServerEstablished(1)) =>
        LET client_ctx == oscore_context(client[1])
            server_ctx == oscore_context(server)
        IN /\ {"sender_id", "recipient_id"} \subseteq DOMAIN client_ctx
           /\ {"sender_id", "recipient_id"} \subseteq DOMAIN server_ctx
           /\ client_ctx.sender_id = server_ctx.recipient_id
           /\ client_ctx.recipient_id = server_ctx.sender_id
           /\ {client_ctx.sender_id, client_ctx.recipient_id} = {client[1].id, server.id}

\* the exchange hashes that went into the master_secret and the master_salt
\* of the context `ctx` (the `other` field of the KDF context)
exchange_hashes(ctx) == {ctx.master_secret.info[4][3], ctx.master_salt.info[4][3]}

\* the sessions of a completed single run whose context has been derived
DerivedSessions ==
    IF ClientEstablished(1) /\ ServerEstablished(1)
    THEN {self \in {client[1], server} : self._oscore_context # None}
    ELSE {}

\* C20 as stated: the exchange hash the OSCORE context is derived from is
\* TH_4 = SHA-256(TH_3 || ciphertext_3), with TH_3 = SHA-256(TH_2 ||
\* ciphertext_2) and TH_2 = SHA-256(MSG1 || data_2).
C20_ExchangeHashIsTH4 ==
    \A self \in DerivedSessions : exchange_hashes(self._oscore_context) = {TH_4(self)}

\* C20: the exchange hash the OSCORE context is derived from is
\* SHA-256(SHA-256(MSG1 || MSG2) || MSG3), taken over the three whole
\* messages the session stored.
C20_ExchangeHashOverMessages ==
    \A self \in DerivedSessions :
       exchange_hashes(self._oscore_context) =
          {message_digest(<<message_digest(<<self.message1, self.message2>>), self.message3>>)}

\* both contexts of a completed run were derived by encrypt or decrypt
C20_Witness ==
    /\ Cardinality(DerivedSessions) = 2
    /\ sealed[0] # None /\ sealed[1] # None

\* the signed parts of an encoded token
CwtSignedParts == {"protected", "payload", "signature"}

\* the token in flight is what encode makes with a key whose verifying key is vk
CwtTokenOf(vk) ==
    \E claims \in ClaimMaps, key \in SigningKeys, kid \in CwtKids :
       /\ get_verifying_key(key) = vk
       /\ cwt.encoded = encode(claims, key, kid)

\* C19: decode(encode(claims, sk, kid), vk) returns claims when vk is the
\* verifying key of sk; decode with another verifying key fails, and decode of
\* a token whose protected header, payload or signature was changed fails too.
\* (A token whose signature was replaced by another key's signature over the
\* same headers and payload is the token that key's encode produces: it fails
\* under every verifying key but that one.)
C19_CwtRoundTrip ==
    cwt.decoded # None =>
       /\ (cwt.changed = {} /\ cwt.vk = get_verifying_key(cwt.key))
             => cwt.decoded = cwt.claims
       /\ (cwt.changed = {} /\ cwt.vk # get_verifying_key(cwt.key))
             => cwt.decoded = SignatureInvalid
       /\ (cwt.changed \cap CwtSignedParts # {} /\ cwt.vk = get_verifying_key(cwt.key))
             => cwt.decoded = SignatureInvalid
       /\ (cwt.changed \cap CwtSignedParts # {} /\ ~CwtTokenOf(cwt.vk))
             => cwt.decoded = SignatureInvalid

\* an unchanged token was decoded to its claims with the signer's verifying key
C19_Witness ==
    /\ cwt.decoded # None
    /\ cwt.changed = {}
    /\ cwt.vk = get_verifying_key(cwt.key)
    /\ cwt.decoded = cwt.claims

\* a token with a changed signed part was refused under the signer's verifying key
C19_ChangedRefused ==
    /\ cwt.decoded # None
    /\ cwt.changed \cap CwtSignedParts # {}
    /\ cwt.vk = get_verifying_key(cwt.key)
    /\ cwt.decoded = SignatureInvalid

\* the error codes of the /token endpoint
TokenErrorCodes == {"invalid_request", "unauthorized_client", "unsupported_grant_type"}

\* the body lacks a field of the request schema
LacksField(params) ==
    params = None \/ \E field \in TokenRequestFields : field \notin DOMAIN params

\* C15: every POST /token is answered 200 with an access_token or 400 with the
\* body {error: code}, code one of invalid_request, unauthorized_client,
\* unsupported_grant_type; a request that lacks a field of the schema
\* (grant_type, client_id, client_secret, aud, scope, cnf) is answered 400 and
\* raises nothing.
C15_TokenAnswered ==
    response.op = "token" =>
       /\ \/ /\ response.status = 200
             /\ "access_token" \in DOMAIN loads(response.body)
          \/ /\ response.status = 400
             /\ DOMAIN loads(response.body) = {"error"}
             /\ loads(response.body).error \in TokenErrorCodes
       /\ LacksField(response.request) => response.status = 400

\* the registered client's token request is refused, with the code `code`
Refused(code) ==
    /\ response'.status = 400
    /\ loads(response'.body) = [error |-> code]
    /\ UNCHANGED <<key_registry, token_registry>>

\* C16: a token request that fails _verify_token_request is answered 400
\* invalid_request, and one whose client_id and client_secret fail check_secret
\* is answered 400 unauthorized_client; in both cases the key registry and the
\* token registry stay as they were.  The token registry changes only for a
\* request that passed both checks.
C16_RefusedRequestChangesNothing ==
    [][\A params \in TokenRequests :
         token(params) =>
            /\ ~_verify_token_request(params) => Refused("invalid_request")
            /\ (/\ _verify_token_request(params)
                /\ ~verify_client(params.client_id, params.client_secret))
                  => Refused("unauthorized_client")
            /\ (token_registry' # token_registry \/ key_registry' # key_registry)
                  => /\ _verify_token_request(params)
                     /\ verify_client(params.client_id, params.client_secret)]_vars

\* a request with a wrong secret was refused while a token was registered
C16_Witness ==
    /\ response.op = "token"
    /\ response.status = 400
    /\ loads(response.body) = [error |-> "unauthorized_client"]
    /\ token_registry # {}
    /\ key_registry[RegisteredClient.client_id] # None

\* the tokens issued to the client: only the registered client passes
\* verify_client, so every token of the registry was issued to it
IssuedTo(client_id) == IF client_id = RegisteredClient.client_id THEN token_registry ELSE {}

\* the token has not expired
Live(t) == now < t.claims.exp

\* C17, first part: the token a request produces is bound to the key in the
\* request's cnf.COSE_KEY, in the registry and as returned to the client.
C17_TokenBoundToRequestKey ==
    (response.op = "token" /\ response.status = 200) =>
       LET cose_key == response.request.cnf.COSE_KEY
           token_sent == loads(response.body).access_token
       IN /\ loads(token_sent.payload).cnf.COSE_KEY = cose_key
          /\ \E t \in token_registry :
                /\ t.bound_key = from_cose(cose_key)
                /\ sign_and_export_self_contained(t, ASSk) = token_sent

\* C17: every token is bound to the key in cnf.COSE_KEY of the request that
\* produced it, in the registry and as returned to the client, and after any
\* sequence of token requests the key registry entry of a client equals the
\* bound key of every live token issued to that client.
C17_KeyRegistryMatchesTokens ==
    /\ C17_TokenBoundToRequestKey
    /\ \A client_id \in ClientIds :
          \A t \in IssuedTo(client_id) : Live(t) => key_registry[client_id] = t.bound_key

\* the fields of an introspection response
IntrospectFields == {"active", "scope", "aud", "iss", "exp", "iat", "cnf"}

\* the last request was an introspection of a registered token
IntrospectedRegistered ==
    /\ response.op = "introspect"
    /\ "token" \in DOMAIN response.request
    /\ get_token(token_registry, response.request.token) # None

\* what /introspect answers for the registered token `t`
IntrospectionOf(t) ==
    [active |-> TRUE, scope |-> t.claims.scope, aud |-> t.claims.aud, iss |-> t.claims.iss,
     exp |-> t.claims.exp, iat |-> t.claims.iat,
     cnf |-> [COSE_KEY |-> CoseKeyEncode(t.bound_key)]]

\* C18: POST /introspect with a registered token and no token_type_hint is
\* answered 201 with active, scope, aud, iss, exp, iat and cnf of that token;
\* without a token field it is answered 400.
C18_IntrospectWithoutHint ==
    /\ (IntrospectedRegistered /\ "token_type_hint" \notin DOMAIN response.request)
         => /\ response.status = 201
            /\ loads(response.body)
                  = IntrospectionOf(get_token(token_registry, response.request.token))
    /\ (response.op = "introspect" /\ "token" \notin DOMAIN response.request)
         => response.status = 400

\* C18, the part that holds: with the hint a registered token is answered 201
\* with its fields, and a request without a token is answered 400
C18_IntrospectWithHint ==
    /\ (IntrospectedRegistered /\ "token_type_hint" \in DOMAIN response.request)
         => /\ response.status = 201
            /\ DOMAIN loads(response.body) = IntrospectFields
            /\ loads(response.body)
                  = IntrospectionOf(get_token(token_registry, response.request.token))
    /\ (response.op = "introspect" /\ "token" \notin DOMAIN response.request)
         => response.status = 400

\* C21: POST /introspect reports active = true only for a token that is in the
\* token registry and whose EXP has not passed; an expired or an unregistered
\* token is never reported active.
C21_ActiveOnlyWhileLive ==
    [][\A params \in IntrospectRequests :
         (introspect(params) /\ response'.status = 201 /\ loads(response'.body).active)
            => LET t == get_token(token_registry, params.token)
               IN t # None /\ now <= t.claims.exp]_vars

\* C21, the part that holds: only a token of the registry is reported active
C21_ActiveOnlyRegistered ==
    [][\A params \in IntrospectRequests :
         (introspect(params) /\ response'.status = 201 /\ loads(response'.body).active)
            => get_token(token_registry, params.token) # None]_vars

\* the MSG2 the server answers a MSG1 with echoes that MSG1's session id and
\* carries the id the server chose; the MSG3 the client answers a MSG2 with
\* carries that MSG2's server session id
SessionIdsEchoed ==
    /\ (on_receive(1) /\ ServerSent2(1)') =>
          /\ net'[1].toC.session_id = net[1].toS.session_id
          /\ net'[1].toC.peer_session_id = server'.id
    /\ (continue_edhoc(1) /\ ClientEstablished(1)') =>
          net'[1].toS.peer_session_id = net[1].toC.peer_session_id

\* the client accepts a MSG2 only if it echoes the client's own session id
ClientChecksEchoedId ==
    (continue_edhoc(1) /\ ClientEstablished(1)') => net[1].toC.session_id = client[1].id

\* the server accepts a MSG3 only if it echoes the id the server chose
ServerChecksEchoedId ==
    (on_receive(1) /\ ServerEstablished(1)') => net[1].toS.peer_session_id = server.id

\* C22: MSG2 echoes the session id of the MSG1 it answers and carries the
\* server's own new id, MSG3 carries the server's id of the MSG2 it answers;
\* the client accepts a MSG2 only if the echoed id is its own, and the server
\* accepts a MSG3 only if the echoed id is the one it chose.
C22_SessionIdsEchoed ==
    [][SessionIdsEchoed /\ ClientChecksEchoedId /\ ServerChecksEchoedId]_vars

\* C22, the part that holds: everything but the server's check of MSG3
C22_EchoedAndClientChecks ==
    [][SessionIdsEchoed /\ ClientChecksEchoedId]_vars

\* C23: whenever oscore_context returns a value, it is the context derived
\* from the shared secret and the messages the session holds now, also after
\* a new handshake on an object whose context was read before.
C23_ContextMatchesTranscript ==
    \A e \in {0, 1} :
       (oscore_context_readable(Self(e)) /\ derivable(Self(e)))
          => oscore_context(Self(e)) = derive_oscore_context(Self(e))

\* the claims _bind_token puts into a token
TokenClaims == {"iss", "iat", "exp", "cti", "scope", "aud"}

\* C24: in every minted token ISS, IAT, EXP and CTI are the AS's: ISS is
\* 'ace.as-server.com', IAT is the time of issue, CTI the drawn one and EXP at
\* least IAT + 7200, whatever the request carried; of the request only scope
\* and aud are in the claims.
C24_ClaimsChosenByAS ==
    /\ \A t \in token_registry :
          /\ DOMAIN t.claims = TokenClaims
          /\ t.claims.iss = <<"ace.as-server.com">>
          /\ t.claims.iat \in 0 .. now
          /\ t.claims.exp >= t.claims.iat + TokenLifetime
          /\ t.claims.cti \in Ctis
    /\ (response.op = "token" /\ response.status = 200) =>
          \E t \in token_registry :
             /\ sign_and_export_self_contained(t, ASSk) = loads(response.body).access_token
             /\ t.claims.scope = response.request.scope
             /\ t.claims.aud = response.request.aud
             /\ t.claims.exp > t.claims.iat

\* a token was minted for a request that carried iss, iat, exp and cti of its own
C24_Witness ==
    /\ response.op = "token"
    /\ response.status = 200
    /\ DOMAIN OverridingClaims \subseteq DOMAIN response.request
    /\ token_registry # {}

=============================================================================
